---- MODULE Spec2Model ----
(***************************************************************************)
(* Model of the planner package: the entities of planner/models.py, the    *)
(* storage document of planner/storage.py and the PlannerService of        *)
(* planner/services.py.                                                    *)
(*                                                                         *)
(* Representation.  A datetime is a tick count 0..DatetimeMax: NumDays     *)
(* days of SecPerDay seconds of UsPerSec microseconds.  An Optional value  *)
(* is a sequence of length 0 (None) or 1.  An ISO-8601 string is the       *)
(* sequence of its fields <<day, second>> or <<day, second, microsecond>>  *)
(* (datetime.isoformat() omits the fraction when it is zero).  A uid       *)
(* string is <<prefix, tick>>.  The storage document is the JSON value     *)
(* the file holds, or a marker for a missing or an unparsable file.        *)
(***************************************************************************)
EXTENDS Integers, Sequences, FiniteSets, TLC

VARIABLES procs, svc, tasks, events, doc, now, lastWriter, last, out, rt

vars == <<procs, svc, tasks, events, doc, now, lastWriter, last, out, rt>>

(* ------------------------------ bounds -------------------------------- *)
TimeScale == 2
MaxClock == 1
MaxItems == 2
MaxListLen == 3
MaxAgendaEvents == 1

UsPerSec == TimeScale
SecPerDay == TimeScale
NumDays == TimeScale
DayTicks == SecPerDay * UsPerSec
DatetimeMax == NumDays * DayTicks - 1
DatetimeMin == 0

None == <<>>
Some(v) == <<v>>
IsSet(o) == o # None

Get(data, key, default) == IF key \in DOMAIN data THEN data[key] ELSE default

(* ------------------------- datetime conversions ----------------------- *)
isoformat(t) ==
  LET d == t \div DayTicks
      s == (t % DayTicks) \div UsPerSec
      u == t % UsPerSec
  IN  IF u = 0 THEN <<d, s>> ELSE <<d, s, u>>

\* mutant: the fraction of a second is dropped
fromisoformat_whole_seconds(x) == x[1] * DayTicks + x[2] * UsPerSec

fromisoformat(x) ==
  x[1] * DayTicks + x[2] * UsPerSec + (IF Len(x) = 3 THEN x[3] ELSE 0)

date(t) == t \div DayTicks

TaskUid(t) == <<"tsk", t>>
EventUid(t) == <<"evt", t>>

(* ------------------------------- Task --------------------------------- *)
Task(title, due, priority, tags, notes, c1, c2) ==
  [title |-> title, due |-> due, priority |-> priority, tags |-> tags,
   notes |-> notes, completed |-> FALSE, created_at |-> c1,
   completed_at |-> None, uid |-> TaskUid(c2)]

\* mutant: completing a completed task reopens it
mark_complete_toggle(t, clock) ==
  IF t.completed
  THEN [t EXCEPT !.completed = FALSE, !.completed_at = None]
  ELSE [t EXCEPT !.completed = TRUE, !.completed_at = Some(clock)]

\* mutant: a task that is already completed keeps its first completed_at
mark_complete_once(t, clock) ==
  IF t.completed THEN t
  ELSE [t EXCEPT !.completed = TRUE, !.completed_at = Some(clock)]

mark_complete(t, clock) ==
  [t EXCEPT !.completed = TRUE, !.completed_at = Some(clock)]

\* datetime + timedelta raises OverflowError outside [datetime.min, datetime.max]
snooze_raises(t, delta) ==
  /\ IsSet(t.due)
  /\ \/ t.due[1] + delta > DatetimeMax
     \/ t.due[1] + delta < DatetimeMin

\* mutant: an undated task is given a due date counted from its creation
snooze_from_creation(t, delta) ==
  [t EXCEPT !.due = Some((IF IsSet(t.due) THEN t.due[1] ELSE t.created_at) + delta)]

snooze(t, delta) ==
  IF IsSet(t.due) THEN [t EXCEPT !.due = Some(t.due[1] + delta)] ELSE t

\* mutant: the completion time is not written
Task_to_dict_without_completed_at(t) ==
  [title |-> t.title,
   due |-> IF IsSet(t.due) THEN Some(isoformat(t.due[1])) ELSE None,
   priority |-> t.priority,
   tags |-> t.tags,
   notes |-> t.notes,
   completed |-> t.completed,
   created_at |-> isoformat(t.created_at),
   completed_at |-> None,
   uid |-> t.uid]

Task_to_dict(t) ==
  [title |-> t.title,
   due |-> IF IsSet(t.due) THEN Some(isoformat(t.due[1])) ELSE None,
   priority |-> t.priority,
   tags |-> t.tags,
   notes |-> t.notes,
   completed |-> t.completed,
   created_at |-> isoformat(t.created_at),
   completed_at |-> IF IsSet(t.completed_at)
                    THEN Some(isoformat(t.completed_at[1])) ELSE None,
   uid |-> t.uid]

\* mutant: an entry without a uid is refused
Task_from_dict_requires_uid(data) == {"title", "uid"} \ DOMAIN data # {}

\* data["title"] raises KeyError when the key is absent
Task_from_dict_raises(data) == "title" \notin DOMAIN data

Task_from_dict(data, clock) ==
  [title |-> data["title"],
   due |-> IF IsSet(Get(data, "due", None))
           THEN Some(fromisoformat(data["due"][1])) ELSE None,
   priority |-> Get(data, "priority", 3),
   tags |-> Get(data, "tags", <<>>),
   notes |-> Get(data, "notes", None),
   completed |-> Get(data, "completed", FALSE),
   created_at |-> IF "created_at" \in DOMAIN data
                  THEN fromisoformat(data["created_at"]) ELSE clock,
   completed_at |-> IF IsSet(Get(data, "completed_at", None))
                    THEN Some(fromisoformat(data["completed_at"][1])) ELSE None,
   uid |-> Get(data, "uid", TaskUid(clock))]

(* ------------------------------- Event -------------------------------- *)
Event(title, start, end, location, tags, notes, c) ==
  [title |-> title, start |-> start, end |-> end, location |-> location,
   tags |-> tags, notes |-> notes, uid |-> EventUid(c)]

Event_to_dict(e) ==
  [title |-> e.title,
   start |-> isoformat(e.start),
   end |-> isoformat(e.end),
   location |-> e.location,
   tags |-> e.tags,
   notes |-> e.notes,
   uid |-> e.uid]

Event_from_dict_raises(data) == {"title", "start", "end"} \ DOMAIN data # {}

Event_from_dict(data, clock) ==
  [title |-> data["title"],
   start |-> fromisoformat(data["start"]),
   end |-> fromisoformat(data["end"]),
   location |-> Get(data, "location", None),
   tags |-> Get(data, "tags", <<>>),
   notes |-> Get(data, "notes", None),
   uid |-> Get(data, "uid", EventUid(clock))]

(* ------------------------- storage document --------------------------- *)
EmptyDoc ==
  [kind |-> "object", keys |-> {"tasks", "events"}, tasks |-> <<>>, events |-> <<>>]

\* a file that does not exist is created holding the empty document
ensure_storage(d) == IF d.kind = "absent" THEN EmptyDoc ELSE d

\* content.get("tasks", []) and content.get("events", [])
DocTasks(d) == IF "tasks" \in d.keys THEN d.tasks ELSE <<>>
DocEvents(d) == IF "events" \in d.keys THEN d.events ELSE <<>>

\* mutant: an unparsable or non-object document is read as an empty one
load_error_swallowed(d) ==
  LET c == ensure_storage(d)
  IN  IF \/ \E k \in DOMAIN DocTasks(c) : Task_from_dict_raises(DocTasks(c)[k])
         \/ \E k \in DOMAIN DocEvents(c) : Event_from_dict_raises(DocEvents(c)[k])
      THEN "KeyError"
      ELSE "none"

\* the exception load_data raises on document d, "none" when it returns
load_error(d) ==
  LET c == ensure_storage(d)
  IN  IF c.kind = "invalid" THEN "JSONDecodeError"
      ELSE IF c.kind # "object" THEN "AttributeError"
      ELSE IF \/ \E k \in DOMAIN DocTasks(c) : Task_from_dict_raises(DocTasks(c)[k])
              \/ \E k \in DOMAIN DocEvents(c) : Event_from_dict_raises(DocEvents(c)[k])
           THEN "KeyError"
      ELSE "none"

load_tasks(d, clock) ==
  LET items == DocTasks(ensure_storage(d))
  IN  [k \in 1..Len(items) |-> Task_from_dict(items[k], clock)]

load_events(d, clock) ==
  LET items == DocEvents(ensure_storage(d))
  IN  [k \in 1..Len(items) |-> Event_from_dict(items[k], clock)]

save_data(ts, es) ==
  [kind |-> "object", keys |-> {"tasks", "events"},
   tasks |-> [k \in 1..Len(ts) |-> Task_to_dict(ts[k])],
   events |-> [k \in 1..Len(es) |-> Event_to_dict(es[k])]]

(* --------------------------- PlannerService --------------------------- *)
Min(a, b) == IF a < b THEN a ELSE b

\* the records a working set may hold: one fewer when two instances run
Capacity == IF Cardinality(procs) > 1 THEN MaxItems - 1 ELSE MaxItems

\* the values one datetime.utcnow() call may return, given the last reading
ClockReads(from) == from..Min(from + 1, MaxClock)

\* the record of the last call: its operation, the instance it was made on, its
\* uid argument (the uid of the record it created, for add_task and add_event),
\* its duration argument, what it returned or raised, and whether the call
\* before it was the same operation on the same instance with the same uid
Result(op, p, arg, delta, res) ==
  [op |-> op, proc |-> p, arg |-> arg, delta |-> delta, res |-> res,
   rep |-> (last.op = op /\ last.proc = p /\ last.arg = arg)]

\* mutant: a uid that matches nothing falls back to the first task
FindTask_fallback(ts, uid) ==
  IF \E k \in 1..Len(ts) : ts[k].uid = uid
  THEN CHOOSE k \in 1..Len(ts) :
         /\ ts[k].uid = uid
         /\ \A j \in 1..(k - 1) : ts[j].uid # uid
  ELSE IF ts # <<>> THEN 1 ELSE 0

\* index of the first task whose uid matches, 0 when the loop finds none
FindTask(ts, uid) ==
  IF \E k \in 1..Len(ts) : ts[k].uid = uid
  THEN CHOOSE k \in 1..Len(ts) :
         /\ ts[k].uid = uid
         /\ \A j \in 1..(k - 1) : ts[j].uid # uid
  ELSE 0

\* mutant: the document is written before the mutation is applied
persist_stale(i, ts, es) ==
  /\ doc' = save_data(tasks[i], events[i])
  /\ lastWriter' = i

\* mutant: the write keeps the stored tasks the writer does not hold
persist_merged(i, ts, es) ==
  /\ doc' = [save_data(ts, es) EXCEPT
               !.tasks = @ \o SelectSeq(DocTasks(ensure_storage(doc)),
                                        LAMBDA d : \A k \in 1..Len(ts) : Task_to_dict(ts[k]) # d)]
  /\ lastWriter' = i

persist(i, ts, es) ==
  /\ doc' = save_data(ts, es)
  /\ lastWriter' = i

\* the readings of datetime.utcnow() while document d is loaded: from_dict
\* reads the clock for every entry, so none is taken on a document without
\* entries; the entries of one load share one reading
LoadClockReads(d) ==
  IF DocTasks(ensure_storage(d)) = <<>> /\ DocEvents(ensure_storage(d)) = <<>>
  THEN {now}
  ELSE ClockReads(now)

\* PlannerService(storage_path): __init__ calls refresh, which loads the
\* document; on an instance that is up it is the start of a new instance at
\* the same storage location
Construct(i) ==
  /\ i \in procs
  /\ doc' = ensure_storage(doc)
  /\ IF load_error(doc) = "none"
     THEN \E c \in LoadClockReads(doc) :
            /\ svc' = [svc EXCEPT ![i] = "up"]
            /\ tasks' = [tasks EXCEPT ![i] = load_tasks(doc, c)]
            /\ events' = [events EXCEPT ![i] = load_events(doc, c)]
            /\ now' = c
            /\ last' = Result("init", i, None, 0, "ok")
     ELSE /\ svc' = [svc EXCEPT ![i] = "failed"]
          /\ tasks' = [tasks EXCEPT ![i] = <<>>]
          /\ events' = [events EXCEPT ![i] = <<>>]
          /\ now' = now
          /\ last' = Result("init", i, None, 0, load_error(doc))
  /\ UNCHANGED <<procs, lastWriter, out, rt>>

AddTask(i, a) ==
  /\ i \in procs /\ svc[i] = "up"
  /\ Len(tasks[i]) + Len(events[i]) < Capacity
  /\ \E c1 \in ClockReads(now) : \E c2 \in ClockReads(c1) :
       LET task == Task(a.title, a.due, a.priority, a.tags, a.notes, c1, c2)
           ts == Append(tasks[i], task)
       IN  /\ tasks' = [tasks EXCEPT ![i] = ts]
           /\ persist(i, ts, events[i])
           /\ now' = c2
           /\ last' = Result("add_task", i, task.uid, 0, "task")
  /\ UNCHANGED <<procs, svc, events, out, rt>>

CompleteTask(i, uid) ==
  /\ i \in procs /\ svc[i] = "up"
  /\ LET k == FindTask(tasks[i], uid)
     IN  IF k # 0
         THEN \E c \in ClockReads(now) :
                LET ts == [tasks[i] EXCEPT ![k] = mark_complete(tasks[i][k], c)]
                IN  /\ tasks' = [tasks EXCEPT ![i] = ts]
                    /\ persist(i, ts, events[i])
                    /\ now' = c
                    /\ last' = Result("complete_task", i, uid, 0, "task")
         ELSE /\ last' = Result("complete_task", i, uid, 0, "None")
              /\ UNCHANGED <<tasks, doc, lastWriter, now>>
  /\ UNCHANGED <<procs, svc, events, out, rt>>

SnoozeTask(i, uid, delta) ==
  /\ i \in procs /\ svc[i] = "up"
  /\ LET k == FindTask(tasks[i], uid)
     IN  IF k = 0
         THEN /\ last' = Result("snooze_task", i, uid, delta, "None")
              /\ UNCHANGED <<tasks, doc, lastWriter>>
         ELSE IF snooze_raises(tasks[i][k], delta)
         THEN /\ last' = Result("snooze_task", i, uid, delta, "OverflowError")
              /\ UNCHANGED <<tasks, doc, lastWriter>>
         ELSE LET ts == [tasks[i] EXCEPT ![k] = snooze(tasks[i][k], delta)]
              IN  /\ tasks' = [tasks EXCEPT ![i] = ts]
                  /\ persist(i, ts, events[i])
                  /\ last' = Result("snooze_task", i, uid, delta, "task")
  /\ UNCHANGED <<procs, svc, events, now, out, rt>>

\* the body of add_event, for the callers that report its outcome themselves
add_event(i, a) ==
  /\ i \in procs /\ svc[i] = "up"
  /\ Len(tasks[i]) + Len(events[i]) < Capacity
  /\ \E c \in ClockReads(now) :
       LET event == Event(a.title, a.start, a.end, a.location, a.tags, a.notes, c)
           es == Append(events[i], event)
       IN  /\ events' = [events EXCEPT ![i] = es]
           /\ persist(i, tasks[i], es)
           /\ now' = c
           /\ last' = Result("add_event", i, event.uid, 0, "event")
  /\ UNCHANGED <<procs, svc, tasks, rt>>

AddEvent(i, a) == add_event(i, a) /\ UNCHANGED out

(* ------------------------- presentation layers ------------------------ *)
\* the add-event command of the command line, on arguments that parsed:
\* dispatch passes start and end to the service as they are
CliAddEvent(i, a) ==
  /\ add_event(i, a)
  /\ out' = Some([op |-> "cli add-event", request |-> a, res |-> "Event created"])

\* the Add Event dialog: nothing when it is cancelled, an error box when start
\* or end does not parse or when end is not after start, else add_event with
\* an empty location or notes text turned into None
GuiAddEvent(i, a, entry) ==
  /\ i \in procs /\ svc[i] = "up"
  /\ IF entry = "cancelled"
     THEN UNCHANGED vars
     ELSE IF entry = "unparsable"
     THEN /\ out' = Some([op |-> "gui add event", request |-> a, res |-> "Invalid Date"])
          /\ UNCHANGED <<procs, svc, tasks, events, doc, now, lastWriter, last, rt>>
     ELSE IF a.end <= a.start
     THEN /\ out' = Some([op |-> "gui add event", request |-> a, res |-> "Invalid Date"])
          /\ UNCHANGED <<procs, svc, tasks, events, doc, now, lastWriter, last, rt>>
     ELSE /\ add_event(i, [a EXCEPT !.location = IF @ = Some("") THEN None ELSE @,
                                    !.notes = IF @ = Some("") THEN None ELSE @])
          /\ out' = Some([op |-> "gui add event", request |-> a, res |-> "added"])

(* ------------------------------ queries ------------------------------- *)
\* t.due or datetime.max
DueKey(t) == IF IsSet(t.due) THEN t.due[1] ELSE DatetimeMax

\* the key (completed, due or datetime.max, priority, created_at), compared
\* as Python compares tuples (False < True)
KeyLess(a, b) ==
  \/ ~a.completed /\ b.completed
  \/ /\ a.completed = b.completed
     /\ \/ DueKey(a) < DueKey(b)
        \/ /\ DueKey(a) = DueKey(b)
           /\ \/ a.priority < b.priority
              \/ /\ a.priority = b.priority
                 /\ a.created_at < b.created_at

\* sorted(tasks, key=...): a stable sort, here by insertion of each element
\* after the elements whose key is not greater
RECURSIVE sorted_tasks(_)
sorted_tasks(ts) ==
  IF ts = <<>> THEN <<>>
  ELSE LET rest == sorted_tasks(SubSeq(ts, 1, Len(ts) - 1))
           x == ts[Len(ts)]
           p == Cardinality({k \in 1..Len(rest) : ~KeyLess(x, rest[k])})
       IN  SubSeq(rest, 1, p) \o <<x>> \o SubSeq(rest, p + 1, Len(rest))

NotCompleted(t) == ~t.completed

\* mutant: the completed tasks are never filtered out
list_tasks_unfiltered(ts, include_completed) == sorted_tasks(ts)

list_tasks(ts, include_completed) ==
  LET sorted == sorted_tasks(ts)
  IN  IF ~include_completed THEN SelectSeq(sorted, NotCompleted) ELSE sorted

\* sorted(events, key=lambda e: e.start): a stable sort, by insertion of each
\* element after the elements whose start is not later
RECURSIVE sorted_events(_)
sorted_events(es) ==
  IF es = <<>> THEN <<>>
  ELSE LET rest == sorted_events(SubSeq(es, 1, Len(es) - 1))
           x == es[Len(es)]
           p == Cardinality({k \in 1..Len(rest) : rest[k].start <= x.start})
       IN  SubSeq(rest, 1, p) \o <<x>> \o SubSeq(rest, p + 1, Len(rest))

\* mutant: an event that starts on end_date itself is left out
list_events_exclusive(es, start_date, end_date) ==
  LET sorted == sorted_events(es)
      after == IF IsSet(start_date)
               THEN SelectSeq(sorted, LAMBDA e : date(e.start) >= start_date[1])
               ELSE sorted
  IN  IF IsSet(end_date)
      THEN SelectSeq(after, LAMBDA e : date(e.start) < end_date[1])
      ELSE after

\* a date object is true whatever its value, so a bound is applied whenever
\* it is not None
list_events(es, start_date, end_date) ==
  LET sorted == sorted_events(es)
      after == IF IsSet(start_date)
               THEN SelectSeq(sorted, LAMBDA e : date(e.start) >= start_date[1])
               ELSE sorted
  IN  IF IsSet(end_date)
      THEN SelectSeq(after, LAMBDA e : date(e.start) <= end_date[1])
      ELSE after

\* mutant: the completed tasks due that day are kept
agenda_for_with_completed(ts, es, day) ==
  [day |-> day,
   tasks |-> SelectSeq(ts, LAMBDA t : IsSet(t.due) /\ date(t.due[1]) = day),
   events |-> SelectSeq(es, LAMBDA e : date(e.start) = day)]

\* Agenda(day, tasks, events), each list in the order of the working set
agenda_for(ts, es, day) ==
  [day |-> day,
   tasks |-> SelectSeq(ts, LAMBDA t : (IsSet(t.due) /\ date(t.due[1]) = day)
                                      /\ ~t.completed),
   events |-> SelectSeq(es, LAMBDA e : date(e.start) = day)]

\* by_priority[task.priority] += 1 for each task: the dict as the sequence of
\* its <<key, value>> items, in insertion order
RECURSIVE by_priority(_)
by_priority(ts) ==
  IF ts = <<>> THEN <<>>
  ELSE LET d == by_priority(SubSeq(ts, 1, Len(ts) - 1))
           p == ts[Len(ts)].priority
       IN  IF \E k \in 1..Len(d) : d[k][1] = p
           THEN [k \in 1..Len(d) |-> IF d[k][1] = p THEN <<p, d[k][2] + 1>> ELSE d[k]]
           ELSE Append(d, <<p, 1>>)

\* sorted(by_priority.items()): the keys are distinct, so the items are
\* ordered by key
RECURSIVE sorted_items(_)
sorted_items(d) ==
  IF d = <<>> THEN <<>>
  ELSE LET rest == sorted_items(SubSeq(d, 1, Len(d) - 1))
           x == d[Len(d)]
           p == Cardinality({k \in 1..Len(rest) : rest[k][1] <= x[1]})
       IN  SubSeq(rest, 1, p) \o <<x>> \o SubSeq(rest, p + 1, Len(rest))

\* mutant: the completed tasks are counted as upcoming too
stats_upcoming_any(ts, es, today) ==
  [total_tasks |-> Len(ts),
   completed_tasks |-> Cardinality({k \in 1..Len(ts) : ts[k].completed}),
   upcoming_tasks |-> Cardinality({k \in 1..Len(ts) :
                                    IsSet(ts[k].due) /\ date(ts[k].due[1]) >= today}),
   events |-> Len(es),
   by_priority |-> sorted_items(by_priority(ts))]

\* today is what date.today() returns during the call
stats(ts, es, today) ==
  [total_tasks |-> Len(ts),
   completed_tasks |-> Cardinality({k \in 1..Len(ts) : ts[k].completed}),
   upcoming_tasks |-> Cardinality({k \in 1..Len(ts) :
                                    (IsSet(ts[k].due) /\ date(ts[k].due[1]) >= today)
                                    /\ ~ts[k].completed}),
   events |-> Len(es),
   by_priority |-> sorted_items(by_priority(ts))]

(* ------------------------------ inputs -------------------------------- *)
\* add_task arguments: a dated task, and an undated one that no validation
\* would pass (empty title, priority outside 1..5)
TaskInputs ==
  { [title |-> "Write report", due |-> Some(DayTicks), priority |-> 2,
     tags |-> <<>>, notes |-> None],
    [title |-> "", due |-> None, priority |-> 9,
     tags |-> <<"home">>, notes |-> Some("2l")] }

\* add_event arguments: one event with start < end and one with end <= start
EventInputs ==
  { [title |-> "Standup", start |-> 1, end |-> DayTicks, location |-> Some("room"),
     tags |-> <<"work">>, notes |-> None],
    [title |-> "Backwards", start |-> DayTicks, end |-> 1, location |-> None,
     tags |-> <<>>, notes |-> None] }

\* snooze_task durations: what takes a task due on the second day to the last
\* microsecond of the last day
Deltas == {DatetimeMax - DayTicks}

MissingUid == <<"tsk", -1>>
UidArgs == {TaskUid(c) : c \in 0..MaxClock} \cup {MissingUid}

StoredTask ==
  [title |-> "Stored", due |-> Some(isoformat(1)), priority |-> 1, tags |-> <<"old">>,
   notes |-> None, completed |-> FALSE, created_at |-> isoformat(0),
   completed_at |-> None, uid |-> TaskUid(0)]

StoredEvent ==
  [title |-> "Launch", start |-> isoformat(DayTicks), end |-> isoformat(DayTicks + 1),
   location |-> None, tags |-> <<>>, notes |-> None, uid |-> EventUid(0)]

ObjectDoc(keys, ts, es) ==
  [kind |-> "object", keys |-> keys, tasks |-> ts, events |-> es]

\* the documents a service may find at its storage location
InitDocs ==
  { [kind |-> "absent", keys |-> {}, tasks |-> <<>>, events |-> <<>>],
    [kind |-> "invalid", keys |-> {}, tasks |-> <<>>, events |-> <<>>],
    [kind |-> "array", keys |-> {}, tasks |-> <<>>, events |-> <<>>],
    ObjectDoc({}, <<>>, <<>>),
    ObjectDoc({"tasks"}, <<StoredTask>>, <<>>),
    ObjectDoc({"events"}, <<>>, <<StoredEvent>>),
    ObjectDoc({"tasks", "events"}, <<StoredTask>>, <<StoredEvent>>),
    ObjectDoc({"tasks", "events"}, <<[priority |-> 1]>>, <<>>) }

(* --------------------------- specifications --------------------------- *)
NoResult ==
  [op |-> "none", proc |-> 0, arg |-> None, delta |-> 0, res |-> "ok", rep |-> FALSE]

InitWith(ps, docs) ==
  /\ procs = ps
  /\ svc = [i \in ps |-> "none"]
  /\ tasks = [i \in ps |-> <<>>]
  /\ events = [i \in ps |-> <<>>]
  /\ doc \in docs
  /\ now = 0
  /\ lastWriter = 0
  /\ last = NoResult
  /\ out = None
  /\ rt = None

Init == InitWith({1}, InitDocs)

Next ==
  \/ \E i \in procs : Construct(i)
  \/ \E i \in procs : \E a \in TaskInputs : AddTask(i, a)
  \/ \E i \in procs : \E a \in EventInputs : AddEvent(i, a)
  \/ \E i \in procs : \E u \in UidArgs : CompleteTask(i, u)
  \/ \E i \in procs : \E u \in UidArgs : \E d \in Deltas : SnoozeTask(i, u, d)

Spec == Init /\ [][Next]_vars

(* ------------------- two instances on one document -------------------- *)
\* two processes construct a service each on the same storage location; every
\* call is atomic with respect to the other process
TwoDocs ==
  { [kind |-> "absent", keys |-> {}, tasks |-> <<>>, events |-> <<>>],
    ObjectDoc({"tasks", "events"}, <<StoredTask>>, <<>>) }

TwoTaskInputs == {a \in TaskInputs : a.priority = 2}
TwoEventInputs == {a \in EventInputs : a.start < a.end}

TwoUidArgs == {StoredTask.uid, MissingUid}

InitTwo == InitWith({1, 2}, TwoDocs)

NextTwo ==
  \/ \E i \in procs : Construct(i)
  \/ \E i \in procs : \E a \in TwoTaskInputs : AddTask(i, a)
  \/ \E i \in procs : \E a \in TwoEventInputs : AddEvent(i, a)
  \/ \E i \in procs : \E u \in TwoUidArgs : CompleteTask(i, u)

SpecTwo == InitTwo /\ [][NextTwo]_vars

(* ------------------------------ restarts ------------------------------ *)
\* the documents a first instance may find: none, one written by an earlier
\* session, and two written by hand whose entry carries the required keys alone
RestartDocs ==
  { [kind |-> "absent", keys |-> {}, tasks |-> <<>>, events |-> <<>>],
    ObjectDoc({"tasks", "events"}, <<StoredTask>>, <<StoredEvent>>),
    ObjectDoc({"tasks"}, <<[title |-> "Stored"]>>, <<>>),
    ObjectDoc({"events"}, <<>>,
              <<[title |-> "Launch", start |-> isoformat(DayTicks),
                 end |-> isoformat(DayTicks + 1)]>>) }

InitRestart == InitWith({1}, RestartDocs)

NextRestart ==
  \/ \E i \in procs : Construct(i)
  \/ \E i \in procs : \E a \in TwoTaskInputs : AddTask(i, a)
  \/ \E i \in procs : \E a \in TwoEventInputs : AddEvent(i, a)
  \/ \E i \in procs : \E u \in UidArgs : CompleteTask(i, u)
  \/ \E i \in procs : \E u \in UidArgs : \E d \in Deltas : SnoozeTask(i, u, d)

SpecRestart == InitRestart /\ [][NextRestart]_vars

(* ------------------- add_event through a front end -------------------- *)
\* the documents of an earlier session: none yet, or one holding an event
UIDocs ==
  { [kind |-> "absent", keys |-> {}, tasks |-> <<>>, events |-> <<>>],
    ObjectDoc({"tasks", "events"}, <<>>, <<StoredEvent>>) }

\* what a user may enter: an event with end after start, one with end before
\* start and one with end equal to start
UIEventInputs ==
  EventInputs \cup
  { [title |-> "Instant", start |-> DayTicks, end |-> DayTicks, location |-> Some(""),
     tags |-> <<>>, notes |-> Some("")] }

DialogEntries == {"cancelled", "unparsable", "parsed"}

InitUI == InitWith({1}, UIDocs)

NextUI ==
  \/ \E i \in procs : Construct(i)
  \/ \E i \in procs : \E a \in UIEventInputs : CliAddEvent(i, a)
  \/ \E i \in procs : \E a \in UIEventInputs : \E entry \in DialogEntries :
       GuiAddEvent(i, a, entry)

SpecUI == InitUI /\ [][NextUI]_vars

(* ----------------------------- list_tasks ----------------------------- *)
\* the tasks a working set is drawn from: every combination of the sort key's
\* lower fields on an incomplete task, and two completed tasks
ListUniverse ==
  [title : {"t"}, due : {None, Some(DayTicks), Some(DatetimeMax)}, priority : {1, 2},
   tags : {<<>>}, notes : {None}, completed : {FALSE}, created_at : {0, 1},
   completed_at : {None}, uid : {TaskUid(0)}]
  \cup
  [title : {"t"}, due : {None, Some(DayTicks)}, priority : {1},
   tags : {<<>>}, notes : {None}, completed : {TRUE}, created_at : {0},
   completed_at : {Some(1)}, uid : {TaskUid(0)}]

SeqsUpTo(S, n) == UNION {[1..m -> S] : m \in 0..n}

InitList ==
  /\ procs = {1}
  /\ svc = [i \in {1} |-> "up"]
  /\ tasks \in [{1} -> SeqsUpTo(ListUniverse, MaxListLen)]
  /\ events = [i \in {1} |-> <<>>]
  /\ doc = save_data(tasks[1], events[1])
  /\ now = 1
  /\ lastWriter = 0
  /\ last = NoResult
  /\ out = None
  /\ rt = None

ListTasks(i, include_completed) ==
  /\ i \in procs /\ svc[i] = "up"
  /\ out' = Some([op |-> "list_tasks", include_completed |-> include_completed,
                  res |-> list_tasks(tasks[i], include_completed)])
  /\ UNCHANGED <<procs, svc, tasks, events, doc, now, lastWriter, last, rt>>

NextList == \E i \in procs : \E b \in BOOLEAN : ListTasks(i, b)

SpecList == InitList /\ [][NextList]_vars

(* ---------------------------- list_events ----------------------------- *)
Days == 0..(NumDays - 1)

\* the events a working set is drawn from: starts at the first and the second
\* microsecond of the first day, at midnight of the second day and at
\* datetime.max
EventUniverse ==
  [title : {"e"}, start : {DatetimeMin, 1, DayTicks, DatetimeMax}, end : {DatetimeMax},
   location : {None}, tags : {<<>>}, notes : {None}, uid : {EventUid(0)}]

InitEvents ==
  /\ procs = {1}
  /\ svc = [i \in {1} |-> "up"]
  /\ tasks = [i \in {1} |-> <<>>]
  /\ events \in [{1} -> SeqsUpTo(EventUniverse, MaxListLen)]
  /\ doc = save_data(tasks[1], events[1])
  /\ now = 1
  /\ lastWriter = 0
  /\ last = NoResult
  /\ out = None
  /\ rt = None

ListEvents(i, start_date, end_date) ==
  /\ i \in procs /\ svc[i] = "up"
  /\ out' = Some([op |-> "list_events", start_date |-> start_date,
                  end_date |-> end_date,
                  res |-> list_events(events[i], start_date, end_date)])
  /\ UNCHANGED <<procs, svc, tasks, events, doc, now, lastWriter, last, rt>>

DateArgs == {None} \cup {Some(d) : d \in Days}

NextEvents == \E i \in procs : \E sd, ed \in DateArgs : ListEvents(i, sd, ed)

SpecEvents == InitEvents /\ [][NextEvents]_vars

(* ------------------------ agenda_for and stats ------------------------ *)
\* the tasks a working set is drawn from: no due date, a due date on the first
\* day and one on the second, incomplete and completed, at the default
\* priority; and two tasks of priority 1 due on the first day
AgendaTasks ==
  [title : {"t"}, due : {None, Some(1), Some(DayTicks)}, priority : {3},
   tags : {<<>>}, notes : {None}, completed : {FALSE}, created_at : {0},
   completed_at : {None}, uid : {TaskUid(0)}]
  \cup
  [title : {"t"}, due : {None, Some(1), Some(DayTicks)}, priority : {3},
   tags : {<<>>}, notes : {None}, completed : {TRUE}, created_at : {0},
   completed_at : {Some(1)}, uid : {TaskUid(0)}]
  \cup
  [title : {"t"}, due : {Some(DatetimeMin)}, priority : {1},
   tags : {<<>>}, notes : {None}, completed : {FALSE}, created_at : {0},
   completed_at : {None}, uid : {TaskUid(0)}]
  \cup
  [title : {"t"}, due : {Some(DatetimeMin)}, priority : {1},
   tags : {<<>>}, notes : {None}, completed : {TRUE}, created_at : {0},
   completed_at : {Some(1)}, uid : {TaskUid(0)}]

AgendaEvents == {e \in EventUniverse : e.start \in {1, DayTicks}}

InitAgenda ==
  /\ procs = {1}
  /\ svc = [i \in {1} |-> "up"]
  /\ tasks \in [{1} -> SeqsUpTo(AgendaTasks, MaxListLen)]
  /\ events \in [{1} -> SeqsUpTo(AgendaEvents, MaxAgendaEvents)]
  /\ doc = save_data(tasks[1], events[1])
  /\ now = 1
  /\ lastWriter = 0
  /\ last = NoResult
  /\ out = None
  /\ rt = None

AgendaFor(i, day) ==
  /\ i \in procs /\ svc[i] = "up"
  /\ out' = Some([op |-> "agenda_for", day |-> day,
                  res |-> agenda_for(tasks[i], events[i], day)])
  /\ UNCHANGED <<procs, svc, tasks, events, doc, now, lastWriter, last, rt>>

Stats(i, today) ==
  /\ i \in procs /\ svc[i] = "up"
  /\ out' = Some([op |-> "stats", today |-> today,
                  res |-> stats(tasks[i], events[i], today)])
  /\ UNCHANGED <<procs, svc, tasks, events, doc, now, lastWriter, last, rt>>

NextAgenda ==
  \/ \E i \in procs : \E day \in Days : AgendaFor(i, day)
  \/ \E i \in procs : \E today \in Days : Stats(i, today)

SpecAgenda == InitAgenda /\ [][NextAgenda]_vars

(* ----------------------- to_dict and from_dict ------------------------ *)
Ticks == DatetimeMin..DatetimeMax

\* the records a round trip starts from: every due, created_at, start and end,
\* with a plain and an unusual choice of the other fields
RoundTripTasks ==
  [title : {"Write report"}, due : {None} \cup {Some(t) : t \in Ticks}, priority : {3},
   tags : {<<>>}, notes : {None}, completed : {FALSE}, created_at : Ticks,
   completed_at : {None}, uid : {TaskUid(0)}]
  \cup
  [title : {""}, due : {None, Some(DatetimeMax)}, priority : {0},
   tags : {<<"a", "b">>}, notes : {Some("")}, completed : {TRUE}, created_at : {1},
   completed_at : {Some(t) : t \in Ticks}, uid : {<<"imported", 7>>}]

RoundTripEvents ==
  [title : {"Standup"}, start : Ticks, end : Ticks, location : {None},
   tags : {<<>>}, notes : {None}, uid : {EventUid(0)}]
  \cup
  [title : {""}, start : {DatetimeMax}, end : {0}, location : {Some("room")},
   tags : {<<"a", "b">>}, notes : {Some("n")}, uid : {<<"imported", 7>>}]

InitRoundTrip ==
  /\ procs = {}
  /\ svc = <<>>
  /\ tasks = <<>>
  /\ events = <<>>
  /\ doc = EmptyDoc
  /\ now = MaxClock
  /\ lastWriter = 0
  /\ last = NoResult
  /\ out = None
  /\ \/ \E t \in RoundTripTasks : rt = [kind |-> "task", stage |-> "record", rec |-> t]
     \/ \E e \in RoundTripEvents : rt = [kind |-> "event", stage |-> "record", rec |-> e]

ToDict ==
  /\ rt.stage = "record"
  /\ rt' = [kind |-> rt.kind, stage |-> "dict", rec |-> rt.rec,
            dict |-> IF rt.kind = "task" THEN Task_to_dict(rt.rec)
                     ELSE Event_to_dict(rt.rec)]
  /\ UNCHANGED <<procs, svc, tasks, events, doc, now, lastWriter, last, out>>

FromDict ==
  /\ rt.stage = "dict"
  /\ rt' = [kind |-> rt.kind, stage |-> "back", rec |-> rt.rec, dict |-> rt.dict,
            back |-> IF rt.kind = "task" THEN Task_from_dict(rt.dict, now)
                     ELSE Event_from_dict(rt.dict, now)]
  /\ UNCHANGED <<procs, svc, tasks, events, doc, now, lastWriter, last, out>>

NextRoundTrip == ToDict \/ FromDict

SpecRoundTrip == InitRoundTrip /\ [][NextRoundTrip]_vars

(* ---------------------- from_dict on partial entries ------------------ *)
\* a stored task and a stored event with every key present and no value at
\* its default
FullTaskDict ==
  [title |-> "Stored", due |-> Some(isoformat(DayTicks + 1)), priority |-> 1,
   tags |-> <<"old">>, notes |-> Some("n"), completed |-> TRUE,
   created_at |-> isoformat(1), completed_at |-> Some(isoformat(DayTicks)),
   uid |-> <<"imported", 7>>]

FullEventDict ==
  [title |-> "Launch", start |-> isoformat(1), end |-> isoformat(DayTicks),
   location |-> Some("room"), tags |-> <<"work">>, notes |-> Some("n"),
   uid |-> <<"imported", 8>>]

\* the entries with some keys of a full entry missing
PartialDicts(full) == {[k \in keys |-> full[k]] : keys \in SUBSET DOMAIN full}

InitFromDict ==
  /\ procs = {}
  /\ svc = <<>>
  /\ tasks = <<>>
  /\ events = <<>>
  /\ doc = EmptyDoc
  /\ now \in 0..MaxClock
  /\ lastWriter = 0
  /\ last = NoResult
  /\ out = None
  /\ \/ \E d \in PartialDicts(FullTaskDict) :
          rt = [kind |-> "task", stage |-> "dict", dict |-> d]
     \/ \E d \in PartialDicts(FullEventDict) :
          rt = [kind |-> "event", stage |-> "dict", dict |-> d]

\* Task.from_dict(data) or Event.from_dict(data): the record, or the KeyError
\* of the first subscription of a missing key
Deserialize ==
  /\ rt.stage = "dict"
  /\ rt' = IF rt.kind = "task"
           THEN IF Task_from_dict_raises(rt.dict)
                THEN [kind |-> rt.kind, stage |-> "raised", dict |-> rt.dict,
                      error |-> "KeyError"]
                ELSE [kind |-> rt.kind, stage |-> "back", dict |-> rt.dict,
                      back |-> Task_from_dict(rt.dict, now)]
           ELSE IF Event_from_dict_raises(rt.dict)
                THEN [kind |-> rt.kind, stage |-> "raised", dict |-> rt.dict,
                      error |-> "KeyError"]
                ELSE [kind |-> rt.kind, stage |-> "back", dict |-> rt.dict,
                      back |-> Event_from_dict(rt.dict, now)]
  /\ UNCHANGED <<procs, svc, tasks, events, doc, now, lastWriter, last, out>>

NextFromDict == Deserialize

SpecFromDict == InitFromDict /\ [][NextFromDict]_vars

(* ------------------------ properties: service ------------------------- *)
Found(res) == res \in {"task", "event"}
MutatingOps == {"add_task", "add_event", "complete_task", "snooze_task"}
UidMatches(ts, uid) == \E k \in 1..Len(ts) : ts[k].uid = uid

\* C1: write-through.  After a mutating call (add_task, add_event, complete_task
\* or snooze_task) that found its target has returned, the document is exactly
\* the serialization of the instance's whole working set, tasks and events in
\* their in-memory order, a task or an event just added being the last entry of
\* its list; and in every state after the first write the document equals the
\* serialization of the working set, so no completed mutation is in memory only.
WriteThrough ==
  /\ \A i \in procs :
       (lastWriter = i /\ svc[i] = "up") => doc = save_data(tasks[i], events[i])
  /\ (last.op \in MutatingOps /\ Found(last.res)) =>
       /\ lastWriter = last.proc
       /\ doc = save_data(tasks[last.proc], events[last.proc])
       /\ Len(doc.tasks) = Len(tasks[last.proc])
       /\ Len(doc.events) = Len(events[last.proc])
  /\ last.op = "add_task" =>
       /\ doc.tasks # <<>>
       /\ doc.tasks[Len(doc.tasks)].uid = last.arg
       /\ doc.tasks[Len(doc.tasks)].completed = FALSE
  /\ last.op = "add_event" =>
       /\ doc.events # <<>>
       /\ doc.events[Len(doc.events)].uid = last.arg

\* a completion has been written with two tasks in the working set
WriteThroughWitness ==
  /\ last.op = "complete_task" /\ last.res = "task"
  /\ Len(tasks[1]) = 2
  /\ tasks[1][2].completed
  /\ doc.tasks[2].completed

SameElements(xs, ys) ==
  /\ Len(xs) = Len(ys)
  /\ \A x \in {xs[k] : k \in 1..Len(xs)} \cup {ys[k] : k \in 1..Len(ys)} :
       Cardinality({k \in 1..Len(xs) : xs[k] = x})
         = Cardinality({k \in 1..Len(ys) : ys[k] = x})

\* the working set holds only tasks made by add_task (none loaded from a
\* document that was not empty)
OnlyAdded(ts) == \A k \in 1..Len(ts) : ts[k].title # StoredTask.title

\* C2: on a service started from an empty document, list_tasks with
\* include_completed=true returns exactly the tasks that add_task appended, one
\* entry for each, and the uids of those tasks are pairwise distinct.
AddTaskDistinctUids ==
  \A i \in procs :
    (svc[i] = "up" /\ OnlyAdded(tasks[i])) =>
      /\ SameElements(list_tasks(tasks[i], TRUE), tasks[i])
      /\ \A j, k \in 1..Len(tasks[i]) : j # k => tasks[i][j].uid # tasks[i][k].uid

\* C5: complete_task is idempotent in effect.  A complete_task call on a uid of
\* the working set returns the task and leaves it completed; when the call
\* before it was complete_task on the same uid, it changes nothing but that
\* task's completed_at, which becomes the time the second call read, and it
\* writes the document.
CompleteTwice ==
  [][ (last'.op = "complete_task" /\ UidMatches(tasks[last'.proc], last'.arg)) =>
        LET i == last'.proc
            k == FindTask(tasks[i], last'.arg)
        IN  /\ last'.res = "task"
            /\ tasks'[i][k].completed
            /\ tasks'[i][k].completed_at = Some(now')
            /\ lastWriter' = i
            /\ doc' = save_data(tasks'[i], events'[i])
            /\ (last'.rep /\ last.res = "task") =>
                 /\ tasks[i][k].completed
                 /\ tasks'[i] = [tasks[i] EXCEPT ![k].completed_at = Some(now')]
                 /\ events' = events
                 /\ svc' = svc
    ]_vars

\* the second of two complete_task calls in a row has moved completed_at
CompleteTwiceWitness ==
  /\ last.op = "complete_task" /\ last.res = "task" /\ last.rep
  /\ \E k \in 1..Len(tasks[1]) :
       /\ tasks[1][k].uid = last.arg
       /\ tasks[1][k].completed_at = Some(now)
       /\ tasks[1][k].created_at < now
       /\ tasks[1][k].completed

\* C6: complete_task and snooze_task with a uid that matches no task of the
\* working set return None, raise nothing, and change neither the working set
\* nor the document, which is not written.
NotFoundChangesNothing ==
  [][ (/\ last'.op \in {"complete_task", "snooze_task"}
       /\ ~UidMatches(tasks[last'.proc], last'.arg)) =>
        /\ last'.res = "None"
        /\ UNCHANGED <<tasks, events, doc, lastWriter, svc>>
    ]_vars

\* a lookup failed on a working set that holds a task, before its first write
NotFoundWitness ==
  /\ last.op \in {"complete_task", "snooze_task"} /\ last.res = "None"
  /\ tasks[1] # <<>>
  /\ lastWriter = 0
  /\ doc # save_data(tasks[1], events[1])

\* the statement of C7 for the snooze_task calls that find their task, with
\* or without the case of a sum that is no datetime
SnoozeLaw(all) ==
      (/\ last'.op = "snooze_task"
       /\ UidMatches(tasks[last'.proc], last'.arg)
       /\ (all \/ last'.res # "OverflowError")) =>
        LET i == last'.proc
            k == FindTask(tasks[i], last'.arg)
            old == tasks[i][k]
        IN  /\ last'.res = "task"
            /\ IF IsSet(old.due)
               THEN tasks'[i][k] = [old EXCEPT !.due = Some(old.due[1] + last'.delta)]
               ELSE tasks'[i][k] = old
            /\ Len(tasks'[i]) = Len(tasks[i])
            /\ \A j \in 1..Len(tasks[i]) : j # k => tasks'[i][j] = tasks[i][j]
            /\ events' = events
            /\ lastWriter' = i
            /\ doc' = save_data(tasks'[i], events'[i])

\* C7 as stated: snooze_task on an existing task with a due date makes the due
\* the old due plus the duration; on one without a due date no field changes,
\* the document is rewritten and the task returned; no other task and no event
\* changes.
SnoozeShiftsDue == [][SnoozeLaw(TRUE)]_vars

\* C7 as amended: the same, for the calls whose sum old due + duration is a
\* datetime (at most datetime.max); the others raise OverflowError, change
\* nothing and write nothing.
SnoozeShiftsDueInRange ==
  [][ /\ SnoozeLaw(FALSE)
      /\ (last'.op = "snooze_task" /\ last'.res = "OverflowError") =>
           UNCHANGED <<tasks, events, doc, lastWriter, svc>>
    ]_vars

\* a dated task has been shifted beside an undated one
SnoozeWitness ==
  /\ last.op = "snooze_task" /\ last.res = "task"
  /\ Len(tasks[1]) = 2
  /\ \E k \in 1..2 :
       /\ tasks[1][k].uid = last.arg
       /\ tasks[1][k].due = Some(DayTicks + last.delta)
       /\ ~IsSet(tasks[1][3 - k].due)

Malformed(d) == d.kind \in {"invalid", "array"}

\* C9: constructing a service on a malformed document (text that is no JSON, or
\* JSON that is no object) raises to the caller and never yields a service with
\* an empty working set; a JSON object without the tasks key, or without the
\* events key, loads, with that collection empty.
LoadFailsHard ==
  [][ last'.op = "init" =>
        LET i == last'.proc
        IN  /\ Malformed(doc) =>
                 /\ last'.res \in {"JSONDecodeError", "AttributeError"}
                 /\ svc'[i] = "failed"
                 /\ doc' = doc
            /\ (doc.kind = "object" /\ last'.res = "ok") =>
                 /\ svc'[i] = "up"
                 /\ "tasks" \notin doc.keys => tasks'[i] = <<>>
                 /\ "events" \notin doc.keys => events'[i] = <<>>
                 /\ "tasks" \in doc.keys => Len(tasks'[i]) = Len(doc.tasks)
                 /\ "events" \in doc.keys => Len(events'[i]) = Len(doc.events)
            /\ (/\ doc.kind = "object"
                /\ doc.keys # {"tasks", "events"}
                /\ \A k \in 1..Len(DocTasks(doc)) : ~Task_from_dict_raises(DocTasks(doc)[k])
                /\ \A k \in 1..Len(DocEvents(doc)) : ~Event_from_dict_raises(DocEvents(doc)[k]))
                 => last'.res = "ok"
    ]_vars

\* a document without the tasks key has loaded its event and no task
LoadWitness ==
  /\ last.op = "init" /\ last.res = "ok"
  /\ doc.kind = "object" /\ doc.keys = {"events"}
  /\ tasks[1] = <<>>
  /\ Len(events[1]) = 1


\* the task was made by add_task, not loaded from an earlier session's document
AddedTask(t) == t.title # StoredTask.title

\* C17: the working set is append-only.  No service operation removes or
\* reorders a task or an event: each keeps its place, a task its uid, title
\* and created_at, an event every field; a completed task stays completed; and
\* in every state a task made by add_task has completed_at set exactly when it
\* is completed.
AppendOnly ==
  /\ [](\A i \in procs : \A k \in 1..Len(tasks[i]) :
          AddedTask(tasks[i][k]) =>
            (IsSet(tasks[i][k].completed_at) <=> tasks[i][k].completed))
  /\ [][ last'.op # "init" =>
           \A i \in procs :
             /\ Len(tasks'[i]) >= Len(tasks[i])
             /\ Len(events'[i]) >= Len(events[i])
             /\ \A k \in 1..Len(tasks[i]) :
                  /\ tasks'[i][k].uid = tasks[i][k].uid
                  /\ tasks'[i][k].title = tasks[i][k].title
                  /\ tasks'[i][k].created_at = tasks[i][k].created_at
                  /\ tasks[i][k].completed => tasks'[i][k].completed
             /\ \A k \in 1..Len(events[i]) : events'[i][k] = events[i][k]
       ]_vars

\* a task made by add_task was completed and then snoozed, beside an event: it
\* is completed still, with its completion time
AppendOnlyWitness ==
  /\ last.op = "snooze_task" /\ last.res = "task"
  /\ Len(tasks[1]) = 1 /\ Len(events[1]) = 1
  /\ AddedTask(tasks[1][1])
  /\ tasks[1][1].uid = last.arg
  /\ tasks[1][1].completed
  /\ IsSet(tasks[1][1].completed_at)
  /\ tasks[1][1].due = Some(DayTicks + last.delta)

(* ------------------------- properties: restarts ----------------------- *)
\* a new instance started where instance i was up has loaded i's working set
SameWorkingSet(i) ==
  /\ last'.res = "ok"
  /\ svc'[i] = "up"
  /\ tasks'[i] = tasks[i]
  /\ events'[i] = events[i]
  /\ \A k \in 1..Len(tasks[i]) :
       /\ tasks'[i][k].uid = tasks[i][k].uid
       /\ tasks'[i][k].completed = tasks[i][k].completed
       /\ tasks'[i][k].completed_at = tasks[i][k].completed_at
       /\ tasks'[i][k].due = tasks[i][k].due

\* every entry of the document carries the keys from_dict would fill from
\* the clock
CarriesGenerated(d) ==
  /\ \A k \in 1..Len(DocTasks(d)) : {"uid", "created_at"} \subseteq DOMAIN DocTasks(d)[k]
  /\ \A k \in 1..Len(DocEvents(d)) : "uid" \in DOMAIN DocEvents(d)[k]

\* C16 as stated: restart durability.  After any sequence of service
\* operations, a new PlannerService on the same storage location loads a
\* working set equal to the one the previous instance holds at that moment:
\* the same tasks and events in the same order, every field equal.
RestartDurable ==
  [][ (last'.op = "init" /\ svc[last'.proc] = "up") => SameWorkingSet(last'.proc)
    ]_vars

\* C16 as amended: the same, once the previous instance has written the
\* document (an add_task, add_event, complete_task or snooze_task that found
\* its task), or when every entry of the document it loaded carries its uid
\* (and created_at, for a task).
RestartDurableOnceWritten ==
  [][ (/\ last'.op = "init"
       /\ svc[last'.proc] = "up"
       /\ (lastWriter = last'.proc \/ CarriesGenerated(doc))) =>
        SameWorkingSet(last'.proc)
    ]_vars

\* a task loaded from an entry without uid got its uid at the first load, was
\* completed, and after a restart at a later time has that uid and its
\* completion time still
RestartWitness ==
  /\ last.op = "init" /\ last.res = "ok"
  /\ lastWriter = 1
  /\ now = 1
  /\ Len(tasks[1]) = 1
  /\ tasks[1][1].priority = 3
  /\ tasks[1][1].uid = TaskUid(0)
  /\ tasks[1][1].created_at = 0
  /\ tasks[1][1].completed
  /\ tasks[1][1].completed_at = Some(1)

(* ----------------------- properties: two instances -------------------- *)
\* C10: last writer wins.  With two instances on one document, after any write
\* the document is the serialization of the whole working set of the instance
\* that wrote last, whatever the document held before: a task the other
\* instance holds and the writer does not is absent from the document, and
\* add_task and add_event raise nothing.
LastWriterWins ==
  /\ lastWriter # 0 => doc = save_data(tasks[lastWriter], events[lastWriter])
  /\ last.op \in {"add_task", "add_event"} => Found(last.res)
  /\ \A i \in procs \ {lastWriter} :
       lastWriter # 0 =>
         \A k \in 1..Len(tasks[i]) :
           (\A j \in 1..Len(tasks[lastWriter]) : tasks[lastWriter][j] # tasks[i][k])
             => \A m \in 1..Len(doc.tasks) : doc.tasks[m] # Task_to_dict(tasks[i][k])

\* a lost update: both instances have added a task, the second wrote last, and
\* the document holds the second's task alone
LostUpdate ==
  /\ procs = {1, 2}
  /\ svc[1] = "up" /\ svc[2] = "up"
  /\ lastWriter = 2
  /\ Len(tasks[1]) = 1 /\ Len(tasks[2]) = 1
  /\ OnlyAdded(tasks[1]) /\ OnlyAdded(tasks[2])
  /\ tasks[1][1].uid # tasks[2][1].uid
  /\ Len(doc.tasks) = 1
  /\ doc.tasks[1].uid = tasks[2][1].uid

(* ---------------------- properties: front ends ------------------------ *)
\* C14: the front ends check start < end before they call add_event.  Every
\* event of a working set fed through the command line's add-event and the
\* Add Event dialog ends after it starts, in memory and in the document, and a
\* request whose end is not after its start is answered with a rejection.
PresentationChecksOrder ==
  /\ \A i \in procs : \A k \in 1..Len(events[i]) :
       events[i][k].start < events[i][k].end
  /\ doc.kind = "object" =>
       \A k \in 1..Len(doc.events) :
         fromisoformat(doc.events[k].start) < fromisoformat(doc.events[k].end)
  /\ (out # None /\ out[1].request.end <= out[1].request.start) =>
       out[1].res = "Invalid Date"

(* ------------------------ properties: list_tasks ---------------------- *)
\* a missing due date is later than every datetime
DueOrInfinity(t) == IF IsSet(t.due) THEN t.due[1] ELSE DatetimeMax + 1

\* A may be listed before B under the sorting law
MayPrecede(A, B) ==
  \/ ~A.completed /\ B.completed
  \/ /\ A.completed = B.completed
     /\ \/ DueOrInfinity(A) < DueOrInfinity(B)
        \/ /\ DueOrInfinity(A) = DueOrInfinity(B)
           /\ \/ A.priority < B.priority
              \/ /\ A.priority = B.priority
                 /\ A.created_at <= B.created_at

Listed == IF out = None THEN <<>> ELSE out[1].res

\* C3: the sorting law of list_tasks.  For tasks A listed before B: A is
\* incomplete and B completed, or they have the same completion state and A's
\* due, a missing due being infinitely late, is at most B's, ties on due broken
\* by ascending priority and then by ascending created_at; so an incomplete
\* task with a due date is listed before an incomplete task without one,
\* whatever their priorities.
SortingLaw ==
  \A a, b \in 1..Len(Listed) :
    a < b =>
      /\ MayPrecede(Listed[a], Listed[b])
      /\ ~(/\ ~Listed[a].completed /\ ~Listed[b].completed
           /\ ~IsSet(Listed[a].due) /\ IsSet(Listed[b].due))

\* C4: list_tasks() with include_completed=false lists no completed task; its
\* result is the include_completed=true listing with the completed tasks
\* removed, in the same order, and is also what sorting the incomplete tasks
\* alone gives.
DefaultListing ==
  (out # None /\ ~out[1].include_completed) =>
    /\ \A k \in 1..Len(Listed) : ~Listed[k].completed
    /\ Listed = SelectSeq(list_tasks(tasks[1], TRUE), NotCompleted)
    /\ Listed = list_tasks(SelectSeq(tasks[1], NotCompleted), TRUE)
    /\ Len(Listed) = Cardinality({k \in 1..Len(tasks[1]) : ~tasks[1][k].completed})

\* the default listing of a working set with a completed task between two
\* incomplete ones, which it lists in the other order
DefaultListingWitness ==
  /\ out # None /\ ~out[1].include_completed
  /\ Len(tasks[1]) = 3
  /\ ~tasks[1][1].completed /\ tasks[1][2].completed /\ ~tasks[1][3].completed
  /\ Listed = <<tasks[1][3], tasks[1][1]>>
  /\ tasks[1][1] # tasks[1][3]

(* ------------------------ properties: list_events --------------------- *)
\* C11: list_events(start_date, end_date) returns the events in ascending order
\* of start, and exactly those of the working set whose start date is on or
\* after start_date when it is given and on or before end_date when it is
\* given; either bound applies without the other, and with neither every event
\* is returned.
EventListing ==
  (out # None /\ out[1].op = "list_events") =>
    LET r == out[1].res
        sd == out[1].start_date
        ed == out[1].end_date
        Keep(e) == /\ IsSet(sd) => date(e.start) >= sd[1]
                   /\ IsSet(ed) => date(e.start) <= ed[1]
    IN  /\ \A a, b \in 1..Len(r) : a < b => r[a].start <= r[b].start
        /\ SameElements(r, SelectSeq(events[1], Keep))
        /\ (sd = None /\ ed = None) => SameElements(r, events[1])
        /\ (sd # None /\ ed = None) =>
             Len(r) = Cardinality({k \in 1..Len(events[1]) :
                                     date(events[1][k].start) >= sd[1]})
        /\ (sd = None /\ ed # None) =>
             Len(r) = Cardinality({k \in 1..Len(events[1]) :
                                     date(events[1][k].start) <= ed[1]})

\* both bounds are the second day: the event at its midnight and the one at
\* its last microsecond are listed, in that order, held in the other order, and
\* an event of the first day is left out
EventListingWitness ==
  /\ out # None /\ out[1].op = "list_events"
  /\ out[1].start_date = Some(1) /\ out[1].end_date = Some(1)
  /\ Len(events[1]) = 3
  /\ events[1][1].start = 2 * DayTicks - 1
  /\ events[1][2].start = 1
  /\ events[1][3].start = DayTicks
  /\ out[1].res = <<events[1][3], events[1][1]>>

(* -------------------- properties: agenda_for and stats ---------------- *)
DueOn(t, day) == IsSet(t.due) /\ date(t.due[1]) = day

\* C12: agenda_for(day) returns an Agenda for that day, also when nothing falls
\* on it: its tasks are exactly the tasks of the working set that are not
\* completed and whose due date is day (no completed task, no task without a
\* due date), its events exactly the events whose start date is day; the call
\* changes neither the working set nor the document.
AgendaLaw ==
  [][ (out' # out /\ out'[1].op = "agenda_for") =>
        LET a == out'[1].res
            day == out'[1].day
        IN  /\ a.day = day
            /\ \A k \in 1..Len(a.tasks) :
                 /\ ~a.tasks[k].completed
                 /\ IsSet(a.tasks[k].due)
                 /\ date(a.tasks[k].due[1]) = day
            /\ SameElements(a.tasks, SelectSeq(tasks[1],
                              LAMBDA t : DueOn(t, day) /\ ~t.completed))
            /\ \A k \in 1..Len(a.events) : date(a.events[k].start) = day
            /\ SameElements(a.events, SelectSeq(events[1],
                              LAMBDA e : date(e.start) = day))
            /\ UNCHANGED <<tasks, events, doc, lastWriter, svc>>
    ]_vars

\* the agenda of the first day of a working set holding two incomplete tasks
\* and a completed one due that day, with an event that day: both incomplete
\* tasks and the event
AgendaWitness ==
  /\ out # None /\ out[1].op = "agenda_for" /\ out[1].day = 0
  /\ Len(tasks[1]) = 3
  /\ \A k \in 1..3 : DueOn(tasks[1][k], 0)
  /\ ~tasks[1][1].completed /\ tasks[1][2].completed /\ ~tasks[1][3].completed
  /\ tasks[1][1] # tasks[1][3]
  /\ Len(events[1]) = 1 /\ date(events[1][1].start) = 0
  /\ out[1].res.tasks = <<tasks[1][1], tasks[1][3]>>
  /\ out[1].res.events = events[1]

RECURSIVE SumCounts(_)
SumCounts(items) ==
  IF items = <<>> THEN 0
  ELSE items[Len(items)][2] + SumCounts(SubSeq(items, 1, Len(items) - 1))

\* C13: stats() reports the number of tasks, of completed tasks, of upcoming
\* tasks (not completed, with a due date on or after today) and of events, and
\* the count of tasks at each priority held, by ascending priority, the counts
\* adding up to the number of tasks; on an empty working set every count is
\* zero and the priority mapping is empty.
StatsLaw ==
  (out # None /\ out[1].op = "stats") =>
    LET r == out[1].res
        today == out[1].today
        ts == tasks[1]
        bp == r.by_priority
    IN  /\ r.total_tasks = Len(ts)
        /\ r.completed_tasks = Cardinality({k \in 1..Len(ts) : ts[k].completed})
        /\ r.upcoming_tasks =
             Cardinality({k \in 1..Len(ts) :
                            /\ IsSet(ts[k].due)
                            /\ date(ts[k].due[1]) >= today
                            /\ ~ts[k].completed})
        /\ r.events = Len(events[1])
        /\ \A a, b \in 1..Len(bp) : a < b => bp[a][1] < bp[b][1]
        /\ \A a \in 1..Len(bp) :
             /\ bp[a][2] > 0
             /\ bp[a][2] = Cardinality({k \in 1..Len(ts) : ts[k].priority = bp[a][1]})
        /\ \A k \in 1..Len(ts) : \E a \in 1..Len(bp) : bp[a][1] = ts[k].priority
        /\ SumCounts(bp) = r.total_tasks
        /\ (ts = <<>> /\ events[1] = <<>>) =>
             /\ r.total_tasks = 0 /\ r.completed_tasks = 0
             /\ r.upcoming_tasks = 0 /\ r.events = 0
             /\ bp = <<>>

\* statistics, taken on the second day, of a task of priority 3 due that day, a
\* completed task due that day and a task of priority 1 due the day before
StatsWitness ==
  /\ out # None /\ out[1].op = "stats" /\ out[1].today = 1
  /\ Len(tasks[1]) = 3
  /\ tasks[1][1].priority = 3 /\ DueOn(tasks[1][1], 1) /\ ~tasks[1][1].completed
  /\ tasks[1][2].priority = 3 /\ DueOn(tasks[1][2], 1) /\ tasks[1][2].completed
  /\ tasks[1][3].priority = 1 /\ DueOn(tasks[1][3], 0) /\ ~tasks[1][3].completed
  /\ out[1].res.upcoming_tasks = 1
  /\ out[1].res.completed_tasks = 1
  /\ out[1].res.by_priority = <<<<1, 1>>, <<3, 2>>>>

(* ------------------------ properties: round trip ---------------------- *)
\* C8: round trip.  from_dict(to_dict(r)) equals r field for field, for every
\* Task and every Event r, and has r's uid, not a newly generated one.
RoundTrip ==
  (rt # None /\ rt.stage = "back") =>
    /\ rt.back = rt.rec
    /\ rt.back.uid = rt.rec.uid
    /\ DOMAIN rt.back = DOMAIN rt.rec
    /\ \A f \in DOMAIN rt.rec : rt.back[f] = rt.rec[f]

\* a task whose due has a fraction of a second has made the round trip
RoundTripWitness ==
  /\ rt # None /\ rt.stage = "back" /\ rt.kind = "task"
  /\ IsSet(rt.rec.due)
  /\ Len(rt.dict.due[1]) = 3
  /\ Len(rt.dict.created_at) = 2
  /\ rt.dict.completed_at = None

(* ---------------------- properties: deserialization ------------------- *)
Required(kind) == IF kind = "task" THEN {"title"} ELSE {"title", "start", "end"}

\* C15: from_dict fails exactly on an entry that lacks a required key (title;
\* start or end for an event), with a KeyError, and on no entry because
\* optional keys are absent: an absent due, notes, location or completed_at
\* loads as None, priority as 3, tags as empty, completed as false, and an
\* absent uid is generated anew with the prefix tsk for a task and evt for an
\* event; the keys that are present are loaded.
DefaultsOnLoad ==
  (rt # None /\ rt.stage \in {"back", "raised"} /\ "rec" \notin DOMAIN rt) =>
    LET d == rt.dict
        Absent(key) == key \notin DOMAIN d
    IN  /\ rt.stage = "back" <=> Required(rt.kind) \subseteq DOMAIN d
        /\ rt.stage = "raised" => rt.error = "KeyError"
        /\ (rt.stage = "back" /\ rt.kind = "task") =>
             LET t == rt.back
             IN  /\ t.title = d.title
                 /\ Absent("due") => t.due = None
                 /\ Absent("priority") => t.priority = 3
                 /\ Absent("tags") => t.tags = <<>>
                 /\ Absent("notes") => t.notes = None
                 /\ Absent("completed") => t.completed = FALSE
                 /\ Absent("completed_at") => t.completed_at = None
                 /\ Absent("uid") => (t.uid[1] = "tsk" /\ t.uid[2] \in 0..MaxClock)
                 /\ ~Absent("uid") => t.uid = d.uid
                 /\ ~Absent("due") => t.due = Some(DayTicks + 1)
                 /\ ~Absent("priority") => t.priority = 1
                 /\ ~Absent("completed") => t.completed
        /\ (rt.stage = "back" /\ rt.kind = "event") =>
             LET e == rt.back
             IN  /\ e.title = d.title
                 /\ e.start = 1 /\ e.end = DayTicks
                 /\ Absent("location") => e.location = None
                 /\ Absent("tags") => e.tags = <<>>
                 /\ Absent("notes") => e.notes = None
                 /\ Absent("uid") => (e.uid[1] = "evt" /\ e.uid[2] \in 0..MaxClock)
                 /\ ~Absent("uid") => e.uid = d.uid

\* a task entry that carries its title alone has been loaded
DefaultsWitness ==
  /\ rt # None /\ rt.stage = "back" /\ rt.kind = "task"
  /\ DOMAIN rt.dict = {"title"}
  /\ rt.back.priority = 3
  /\ rt.back.uid = TaskUid(now)
  /\ rt.back.created_at = now

====
